---- MODULE Spec2Model ----
(***************************************************************************)
(* Fractal Engine (src/src/index.ts): escape-time iteration functions      *)
(* (mandelbrot, julia, burningShip), the colour mapper (getColor,          *)
(* hslToRgb) and the canvas renderer (renderFractal).                      *)
(*                                                                         *)
(* JavaScript numbers are modelled as exact rationals [n, d] in lowest     *)
(* terms (d > 0).  +, -, *, /, Math.abs and Math.floor are exact on them.  *)
(* Math.log2 and Math.pow(t, 0.7) are computed to a fixed number of binary *)
(* digits (rounded down); both are exact on the powers of two.             *)
(***************************************************************************)
EXTENDS Integers, Sequences, FiniteSets, TLC

(***************************************************************************)
(* Bounds of the model.                                                    *)
(***************************************************************************)
\* largest maxIterations a caller overrides the default with
MaxIter == 3
\* coordinates of the points handed to the iteration functions are k/2, |k| <= GridMax
GridMax == 4
\* canvas width and height range over 1..MaxDim
MaxDim == 2
\* t handed to getColor ranges over k/TSteps, 0 <= k <= TSteps + 2
TSteps == 24

(***************************************************************************)
(* Numbers.                                                                *)
(***************************************************************************)
Abs(i) == IF i < 0 THEN -i ELSE i

RECURSIVE GCD(_, _)
GCD(a, b) == IF b = 0 THEN a ELSE GCD(b, a % b)

\* the number n/d, d # 0, in lowest terms
Rat(n, d) ==
    LET s == IF d < 0 THEN -1 ELSE 1
        g == GCD(Abs(n), Abs(d))
    IN  [n |-> (s * n) \div g, d |-> (s * d) \div g]

Num(i) == [n |-> i, d |-> 1]

RAdd(a, b) ==
    LET g == GCD(a.d, b.d)
    IN  Rat(a.n * (b.d \div g) + b.n * (a.d \div g), (a.d \div g) * b.d)

RNeg(a) == [n |-> -a.n, d |-> a.d]

RSub(a, b) == RAdd(a, RNeg(b))

RMul(a, b) ==
    LET g1 == GCD(Abs(a.n), b.d)
        g2 == GCD(Abs(b.n), a.d)
    IN  [n |-> (a.n \div g1) * (b.n \div g2), d |-> (a.d \div g2) * (b.d \div g1)]

\* a / b, b # 0
RDiv(a, b) == RMul(a, Rat(b.d, b.n))

RLt(a, b) == a.n * b.d < b.n * a.d

RLe(a, b) == a.n * b.d <= b.n * a.d

\* Math.abs
RAbs(a) == [n |-> Abs(a.n), d |-> a.d]

\* Math.floor
Floor(a) == a.n \div a.d

RECURSIVE Pow2(_)
Pow2(k) == IF k = 0 THEN 1 ELSE 2 * Pow2(k - 1)

\* the largest e >= 0 with 2^e <= n/d, for n/d >= 1
RECURSIVE FloorLog2(_, _)
FloorLog2(n, d) == IF n < 2 * d THEN 0 ELSE 1 + FloorLog2(n, 2 * d)

\* the first k binary digits of log2(y/256) for 256 <= y < 512, as an integer
RECURSIVE LogBits(_, _)
LogBits(y, k) ==
    IF k = 0 THEN 0
    ELSE LET sq == (y * y) \div 256
         IN  IF sq >= 512
             THEN Pow2(k - 1) + LogBits(sq \div 2, k - 1)
             ELSE LogBits(sq, k - 1)

\* Math.log2(a) for a >= 1, to four binary digits
Log2(a) ==
    LET e == FloorLog2(a.n, a.d)
        D == a.d * Pow2(e)
        y == IF D >= 65536 THEN a.n \div (D \div 256) ELSE (a.n * 256) \div D
    IN  RAdd(Num(e), Rat(LogBits(y, 4), 16))

\* integer square root: the largest r with r * r <= n, searched in lo..hi
RECURSIVE ISqrt(_, _, _)
ISqrt(n, lo, hi) ==
    IF lo >= hi THEN lo
    ELSE LET mid == (lo + hi + 1) \div 2
         IN  IF mid * mid <= n THEN ISqrt(n, mid, hi) ELSE ISqrt(n, lo, mid - 1)

\* square root of x/4096 in units of 1/4096, for 0 <= x <= 4096
FixSqrt(x) == ISqrt(x * 4096, 0, 4096)

\* Math.pow(t, 0.7) for 0 <= t <= 1, in fixed point with twelve binary digits:
\* 0.7 = 0.10110011...b, so t^0.7 = t^(1/2) * t^(1/8) * t^(1/16) * t^(1/128) * t^(1/256) * ...
Pow07(t) ==
    LET x   == (t.n * 4096) \div t.d
        r1  == FixSqrt(x)
        r2  == FixSqrt(r1)
        r3  == FixSqrt(r2)
        r4  == FixSqrt(r3)
        r5  == FixSqrt(r4)
        r6  == FixSqrt(r5)
        r7  == FixSqrt(r6)
        r8  == FixSqrt(r7)
        m(a, b) == (a * b) \div 4096
    IN  Rat(m(m(m(m(r1, r3), r4), r7), r8), 4096)

(***************************************************************************)
(* Types and module-level data.                                            *)
(***************************************************************************)
\* interface Point
Point(x, y) == [x |-> x, y |-> y]

ColorSchemes == {"fire", "rainbow", "grayscale", "ocean", "sunset"}

FractalTypes == {"mandelbrot", "julia", "burningShip"}

\* const DEFAULT_CONFIG, as the module is loaded
DEFAULT_CONFIG ==
    [maxIterations |-> 256,
     escapeRadius  |-> Num(4),
     colorScheme   |-> "rainbow",
     offsetX       |-> Rat(-1, 2),
     offsetY       |-> Num(0),
     zoom          |-> Num(1)]

\* the JULIA_PRESETS whose constant the renderer's inputs use; the other presets
\* are decimal fractions whose exact squares leave the integer range
JULIA_PRESETS ==
    {[name |-> "Blob", c |-> Point(Num(0), Num(0))],
     [name |-> "Spiral", c |-> Point(Rat(-2, 5), Rat(3, 5))],
     [name |-> "Burning Ship", c |-> Point(Rat(-2, 5), Rat(2, 5))]}

\* { ...DEFAULT_CONFIG, ...config }: a new object, the fields of config over the defaults
MergeConfig(dflt, config) ==
    [k \in DOMAIN dflt |-> IF k \in DOMAIN config THEN config[k] ELSE dflt[k]]

\* variant: Object.assign(DEFAULT_CONFIG, config), which writes into the defaults
DefaultsAssigned(dflt, config) ==
    [k \in DOMAIN dflt |-> IF k \in DOMAIN config THEN config[k] ELSE dflt[k]]

\* the object-spread reads DEFAULT_CONFIG and leaves it as it was
DefaultsAfterSpread(dflt, config) == dflt

(***************************************************************************)
(* Escape-time iteration: mandelbrot, julia, burningShip.                  *)
(***************************************************************************)
\* zr * zr + zi * zi
MagSq(zr, zi) == RAdd(RMul(zr, zr), RMul(zi, zi))

\* variant: the iteration budget tested with <= instead of <
LoopCondOffByOne(zr, zi, iter, cfg) ==
    /\ iter <= cfg.maxIterations
    /\ RLt(MagSq(zr, zi), cfg.escapeRadius)

\* variant: the two tests joined by || instead of &&
LoopCondEither(zr, zi, iter, cfg) ==
    \/ iter < cfg.maxIterations
    \/ RLt(MagSq(zr, zi), cfg.escapeRadius)

\* the while condition of the three functions
LoopCond(zr, zi, iter, cfg) ==
    /\ iter < cfg.maxIterations
    /\ RLt(MagSq(zr, zi), cfg.escapeRadius)

\* the loop body of mandelbrot
mandelbrotStep(zr, zi, c) ==
    [zr |-> RAdd(RSub(RMul(zr, zr), RMul(zi, zi)), c.x),
     zi |-> RAdd(RMul(Num(2), RMul(zr, zi)), c.y)]

\* the loop body of julia
juliaStep(zr, zi, c) ==
    [zr |-> RAdd(RSub(RMul(zr, zr), RMul(zi, zi)), c.x),
     zi |-> RAdd(RMul(Num(2), RMul(zr, zi)), c.y)]

\* variant: Math.abs around the whole imaginary component, constant included
burningShipStepAbsBoth(zr, zi, c) ==
    [zr |-> RAbs(RAdd(RSub(RMul(zr, zr), RMul(zi, zi)), c.x)),
     zi |-> RAbs(RAdd(RMul(Num(2), RMul(zr, zi)), c.y))]

\* the loop body of burningShip
burningShipStep(zr, zi, c) ==
    [zr |-> RAbs(RAdd(RSub(RMul(zr, zr), RMul(zi, zi)), c.x)),
     zi |-> RAdd(RAbs(RMul(Num(2), RMul(zr, zi))), c.y)]

StepOf(f, zr, zi, c) ==
    CASE f = "mandelbrot"  -> mandelbrotStep(zr, zi, c)
      [] f = "julia"       -> juliaStep(zr, zi, c)
      [] f = "burningShip" -> burningShipStep(zr, zi, c)

\* smooth / cfg.maxIterations, smooth = iter - log2(log2(zr*zr + zi*zi)) + 4
Smooth(zr, zi, iter, cfg) ==
    RDiv(RAdd(RSub(Num(iter), Log2(Log2(MagSq(zr, zi)))), Num(4)),
         Num(cfg.maxIterations))

\* what mandelbrot returns once its loop is left
mandelbrotReturn(zr, zi, iter, cfg) ==
    IF iter = cfg.maxIterations THEN Num(1) ELSE Smooth(zr, zi, iter, cfg)

\* what julia returns once its loop is left
juliaReturn(zr, zi, iter, cfg) ==
    IF iter = cfg.maxIterations THEN Num(1) ELSE Smooth(zr, zi, iter, cfg)

\* what burningShip returns once its loop is left
burningShipReturn(zr, zi, iter, cfg) ==
    IF iter = cfg.maxIterations THEN Num(1) ELSE Rat(iter, cfg.maxIterations)

ReturnOf(f, zr, zi, iter, cfg) ==
    CASE f = "mandelbrot"  -> mandelbrotReturn(zr, zi, iter, cfg)
      [] f = "julia"       -> juliaReturn(zr, zi, iter, cfg)
      [] f = "burningShip" -> burningShipReturn(zr, zi, iter, cfg)

\* the state in which the loop of function f is left, started from (zr, zi, iter)
RECURSIVE RunLoop(_, _, _, _, _, _)
RunLoop(f, zr, zi, iter, c, cfg) ==
    IF LoopCond(zr, zi, iter, cfg)
    THEN LET s == StepOf(f, zr, zi, c)
         IN  RunLoop(f, s.zr, s.zi, iter + 1, c, cfg)
    ELSE [zr |-> zr, zi |-> zi, iter |-> iter]

\* mandelbrot(c, config) with DEFAULT_CONFIG = dflt
mandelbrot(c, config, dflt) ==
    LET cfg == MergeConfig(dflt, config)
        e   == RunLoop("mandelbrot", Num(0), Num(0), 0, c, cfg)
    IN  mandelbrotReturn(e.zr, e.zi, e.iter, cfg)

\* variant: julia starting its orbit at 0 instead of z
juliaFromZero(z, c, config, dflt) ==
    LET cfg == MergeConfig(dflt, config)
        e   == RunLoop("julia", Num(0), Num(0), 0, c, cfg)
    IN  juliaReturn(e.zr, e.zi, e.iter, cfg)

\* julia(z, c, config) with DEFAULT_CONFIG = dflt
julia(z, c, config, dflt) ==
    LET cfg == MergeConfig(dflt, config)
        e   == RunLoop("julia", z.x, z.y, 0, c, cfg)
    IN  juliaReturn(e.zr, e.zi, e.iter, cfg)

\* burningShip(c, config) with DEFAULT_CONFIG = dflt
burningShip(c, config, dflt) ==
    LET cfg == MergeConfig(dflt, config)
        e   == RunLoop("burningShip", Num(0), Num(0), 0, c, cfg)
    IN  burningShipReturn(e.zr, e.zi, e.iter, cfg)

(***************************************************************************)
(* Colour mapping: getColor and hslToRgb.                                  *)
(***************************************************************************)
\* the arrow function hue2rgb inside hslToRgb
hue2rgb(p, q, t0) ==
    LET t1 == IF RLt(t0, Num(0)) THEN RAdd(t0, Num(1)) ELSE t0
        t2 == IF RLt(Num(1), t1) THEN RSub(t1, Num(1)) ELSE t1
    IN  IF RLt(t2, Rat(1, 6))
        THEN RAdd(p, RMul(RMul(RSub(q, p), Num(6)), t2))
        ELSE IF RLt(t2, Rat(1, 2))
        THEN q
        ELSE IF RLt(t2, Rat(2, 3))
        THEN RAdd(p, RMul(RMul(RSub(q, p), RSub(Rat(2, 3), t2)), Num(6)))
        ELSE p

hslToRgb(h, s, l) ==
    LET q == IF RLt(l, Rat(1, 2))
             THEN RMul(l, RAdd(Num(1), s))
             ELSE RSub(RAdd(l, s), RMul(l, s))
        p == RSub(RMul(Num(2), l), q)
        r == IF s = Num(0) THEN l ELSE hue2rgb(p, q, RAdd(h, Rat(1, 3)))
        g == IF s = Num(0) THEN l ELSE hue2rgb(p, q, h)
        b == IF s = Num(0) THEN l ELSE hue2rgb(p, q, RSub(h, Rat(1, 3)))
    IN  <<Floor(RMul(r, Num(255))), Floor(RMul(g, Num(255))), Floor(RMul(b, Num(255)))>>

\* the switch of getColor
SchemeColor(t, scheme) ==
    CASE scheme = "fire" ->
            <<Floor(RMul(Num(255), t)), Floor(RMul(RMul(Num(255), t), t)), 0>>
      [] scheme = "rainbow" ->
            LET hue == RMul(t, Num(360))
            IN  hslToRgb(RDiv(hue, Num(360)), Num(1), Rat(1, 2))
      [] scheme = "grayscale" ->
            LET gray == Floor(RMul(Num(255), t))
            IN  <<gray, gray, gray>>
      [] scheme = "ocean" ->
            <<Floor(RAdd(Num(0), RMul(Num(50), t))),
              Floor(RAdd(RMul(Num(50), t), RMul(RMul(Num(100), t), t))),
              Floor(RAdd(Num(100), RMul(Num(155), t)))>>
      [] scheme = "sunset" ->
            <<Floor(RMul(Num(255), Pow07(t))),
              Floor(RMul(Num(100), t)),
              Floor(RAdd(Num(50), RMul(Num(205), RSub(Num(1), t))))>>

\* variant: the interior test written t > 1 instead of t >= 1
getColorStrictSentinel(t, scheme) ==
    IF RLt(Num(1), t) THEN <<0, 0, 0>> ELSE SchemeColor(t, scheme)

getColor(t, scheme) ==
    IF RLe(Num(1), t) THEN <<0, 0, 0>> ELSE SchemeColor(t, scheme)

(***************************************************************************)
(* renderFractal: viewport, pixel value, pixel write.                      *)
(***************************************************************************)
\* juliaC || { x: -0.7, y: 0.27015 }
JuliaCOrDefault(jc) ==
    IF jc.given THEN jc.c ELSE Point(Rat(-7, 10), Rat(5403, 20000))

\* scale, xMin, yMin, xScale, yScale of renderFractal
Viewport(c, width, height) ==
    LET scale == RDiv(Num(3), c.zoom)
        half  == RDiv(scale, Num(2))
        vext  == RDiv(RDiv(RMul(scale, Num(height)), Num(width)), Num(2))
        xMin  == RSub(c.offsetX, half)
        xMax  == RAdd(c.offsetX, half)
        yMin  == RSub(c.offsetY, vext)
        yMax  == RAdd(c.offsetY, vext)
    IN  [xMin |-> xMin, xMax |-> xMax, yMin |-> yMin, yMax |-> yMax,
         xScale |-> RDiv(RSub(xMax, xMin), Num(width)),
         yScale |-> RDiv(RSub(yMax, yMin), Num(height))]

\* x = xMin + px * xScale, y = yMin + py * yScale
PixelPoint(px0, py0, c, width, height) ==
    LET v == Viewport(c, width, height)
    IN  Point(RAdd(v.xMin, RMul(Num(px0), v.xScale)),
              RAdd(v.yMin, RMul(Num(py0), v.yScale)))

\* the switch (type) of the pixel loop; c is the merged cfg the renderer passes on
PixelValue(type, p, c, jc, dflt) ==
    CASE type = "mandelbrot"  -> mandelbrot(p, c, dflt)
      [] type = "burningShip" -> burningShip(p, c, dflt)
      [] OTHER                -> julia(p, JuliaCOrDefault(jc), c, dflt)

\* variant: the byte offset without the factor 4
PixelIndexUnscaled(px0, py0, width) == py0 * width + px0

\* const idx = (py * width + px) * 4
PixelIndex(px0, py0, width) == (py0 * width + px0) * 4

\* a store into the Uint8ClampedArray: clamped to a byte, dropped outside the array
SetByte(d, i, v) ==
    IF i \in DOMAIN d
    THEN [d EXCEPT ![i] = IF v < 0 THEN 0 ELSE IF v > 255 THEN 255 ELSE v]
    ELSE d

\* data[idx] = r; data[idx + 1] = g; data[idx + 2] = b; data[idx + 3] = 255
WritePixel(d, idx, col) ==
    SetByte(SetByte(SetByte(SetByte(d, idx, col[1]), idx + 1, col[2]),
                    idx + 2, col[3]), idx + 3, 255)

\* ctx.createImageData(width, height): transparent black
CreateImageData(width, height) == [i \in 0..(width * height * 4 - 1) |-> 0]

NoBuffer == [i \in {} |-> 0]

\* variant: the guard if (!ctx) return left out
ContextNeverMissing(ctx) == FALSE

\* if (!ctx) return
ContextMissing(ctx) == ~ctx

\* variant: the row loop written py < height - 1
RowsDoneEarly(py0, height) == ~(py0 < height - 1)

\* the row loop for (py = 0; py < height; py++) is over
RowsDone(py0, height) == ~(py0 < height)

(***************************************************************************)
(* State.                                                                  *)
(***************************************************************************)
VARIABLES
    defaults,   \* the module-level DEFAULT_CONFIG object
    \* one call of mandelbrot / julia / burningShip
    fn,         \* the function called
    point,      \* its first argument (c of mandelbrot and burningShip, z of julia)
    cc,         \* the constant added in every step (julia's second argument)
    config,     \* the partial configuration passed
    cfg,        \* const cfg = { ...DEFAULT_CONFIG, ...config }
    zr, zi,     \* let zr, zi
    iter,       \* let iter
    pc,         \* "loop": at the while test; "done": returned
    ret,        \* the value returned
    \* one call of getColor
    t,          \* its argument t
    scheme,     \* its argument scheme
    rgb,        \* the triple returned
    cpc,        \* "call": called; "done": returned
    \* calls of renderFractal on one canvas
    canvas,     \* [width, height, ctx]: ctx = getContext('2d') gives a context
    surface,    \* the bitmap the canvas shows
    before,     \* the bitmap it showed when the call began
    rtype,      \* argument type
    rconfig,    \* argument config
    juliaC,     \* argument juliaC: [given, c]
    rcfg,       \* const cfg
    data,       \* imageData.data
    px, py,     \* the loop variables
    writes,     \* the pixel writes of this call, in order: [px, py, idx]
    blits,      \* the putImageData calls of this call
    rpc         \* "entry", "rows", "returned"

iterVars == <<fn, point, cc, config, cfg, zr, zi, iter, pc, ret>>

colorVars == <<t, scheme, rgb, cpc>>

renderVars ==
    <<canvas, surface, before, rtype, rconfig, juliaC, rcfg, data, px, py, writes,
      blits, rpc>>

vars == <<defaults, iterVars, colorVars, renderVars>>

(***************************************************************************)
(* Inputs.                                                                 *)
(***************************************************************************)
Coords == {Rat(k, 2) : k \in -GridMax..GridMax}

Points == {Point(x, y) : x \in Coords, y \in Coords}

IsIntPoint(p) == p.x.d = 1 /\ p.y.d = 1

NoConfig == [k \in {} |-> 0]

Field(k, v, present) == IF present THEN k :> v ELSE NoConfig

\* Partial<FractalConfig> with maxIterations and escapeRadius given or left out
IterConfigs ==
    {Field("maxIterations", mi, mi > 0) @@ Field("escapeRadius", Num(er), er > 0) :
        mi \in 0..MaxIter, er \in {0, 2, 4}}

\* constants julia is called with, besides the point itself
JuliaConsts ==
    {Point(Num(0), Num(0)), Point(Num(-1), Num(0)), Point(Num(0), Num(1)),
     Point(Rat(-1, 2), Rat(1, 2))}

\* the orbit is computed exactly: the default of 256 iterations is run on integer
\* points only, whose orbit stays integer
Exact(p, c, conf) ==
    "maxIterations" \in DOMAIN conf \/ (IsIntPoint(p) /\ IsIntPoint(c))

(***************************************************************************)
(* The three iteration functions, one step of the loop at a time.          *)
(***************************************************************************)
Enter(f, p, c, conf, z) ==
    /\ fn = f
    /\ point = p
    /\ cc = c
    /\ config = conf
    /\ cfg = MergeConfig(defaults, conf)
    /\ zr = z.x
    /\ zi = z.y
    /\ iter = 0
    /\ pc = "loop"
    /\ ret = Num(0)

\* no call of getColor
ColorIdle ==
    /\ t = Num(0)
    /\ scheme = "rainbow"
    /\ rgb = <<0, 0, 0>>
    /\ cpc = "idle"

\* no call of renderFractal
RenderIdle ==
    /\ canvas = [width |-> 1, height |-> 1, ctx |-> FALSE]
    /\ surface = NoBuffer
    /\ before = NoBuffer
    /\ rtype = "mandelbrot"
    /\ rconfig = NoConfig
    /\ juliaC = [given |-> FALSE, c |-> Point(Num(0), Num(0))]
    /\ rcfg = DEFAULT_CONFIG
    /\ data = NoBuffer
    /\ px = 0
    /\ py = 0
    /\ writes = <<>>
    /\ blits = 0
    /\ rpc = "idle"

\* no call of an iteration function
IterIdle ==
    /\ fn = "none"
    /\ point = Point(Num(0), Num(0))
    /\ cc = Point(Num(0), Num(0))
    /\ config = NoConfig
    /\ cfg = DEFAULT_CONFIG
    /\ zr = Num(0)
    /\ zi = Num(0)
    /\ iter = 0
    /\ pc = "idle"
    /\ ret = Num(0)

InitIter ==
    /\ defaults = DEFAULT_CONFIG
    /\ ColorIdle
    /\ RenderIdle
    /\ \/ \E p \in Points, conf \in IterConfigs :
            /\ Exact(p, p, conf)
            /\ Enter("mandelbrot", p, p, conf, Point(Num(0), Num(0)))
       \/ \E p \in Points, conf \in IterConfigs :
            /\ Exact(p, p, conf)
            /\ Enter("burningShip", p, p, conf, Point(Num(0), Num(0)))
       \/ \E p \in Points, conf \in IterConfigs :
            \E c \in JuliaConsts \cup {p} :
                /\ Exact(p, c, conf)
                /\ Enter("julia", p, c, conf, p)

Loop(f) ==
    /\ pc = "loop"
    /\ fn = f
    /\ LoopCond(zr, zi, iter, cfg)
    /\ LET s == StepOf(f, zr, zi, cc)
       IN  /\ zr' = s.zr
           /\ zi' = s.zi
    /\ iter' = iter + 1
    /\ UNCHANGED <<defaults, fn, point, cc, config, cfg, pc, ret, colorVars, renderVars>>

Return(f) ==
    /\ pc = "loop"
    /\ fn = f
    /\ ~LoopCond(zr, zi, iter, cfg)
    /\ ret' = ReturnOf(f, zr, zi, iter, cfg)
    /\ pc' = "done"
    /\ UNCHANGED <<defaults, fn, point, cc, config, cfg, zr, zi, iter, colorVars, renderVars>>

mandelbrotLoop == Loop("mandelbrot")

mandelbrotExit == Return("mandelbrot")

juliaLoop == Loop("julia")

juliaExit == Return("julia")

burningShipLoop == Loop("burningShip")

burningShipExit == Return("burningShip")

NextIter ==
    \/ mandelbrotLoop
    \/ mandelbrotExit
    \/ juliaLoop
    \/ juliaExit
    \/ burningShipLoop
    \/ burningShipExit

Spec == InitIter /\ [][NextIter]_vars

(***************************************************************************)
(* getColor, called on one (t, scheme).                                    *)
(***************************************************************************)
\* t = k/TSteps: [0, 1) and the values 1, 1 + 1/TSteps, 1 + 2/TSteps
TValues == {Rat(k, TSteps) : k \in 0..(TSteps + 2)}

InitColor ==
    /\ defaults = DEFAULT_CONFIG
    /\ IterIdle
    /\ RenderIdle
    /\ t \in TValues
    /\ scheme \in ColorSchemes
    /\ rgb = <<0, 0, 0>>
    /\ cpc = "call"

getColorCall ==
    /\ cpc = "call"
    /\ rgb' = getColor(t, scheme)
    /\ cpc' = "done"
    /\ UNCHANGED <<defaults, iterVars, t, scheme, renderVars>>

NextColor == getColorCall

SpecColor == InitColor /\ [][NextColor]_vars

(***************************************************************************)
(* renderFractal, called again and again on one canvas.                    *)
(***************************************************************************)
\* a view whose pixel centres on a square canvas of two by two are integer points
IntegerView == [zoom |-> Rat(3, 2), offsetX |-> Num(0), offsetY |-> Num(0)]

RenderConfigs ==
    {("maxIterations" :> mi) @@ Field("colorScheme", o[1], o[1] # "") @@ o[2] :
        mi \in {1, 2, 8},
        o \in {<<"", NoConfig>>, <<"fire", NoConfig>>, <<"sunset", IntegerView>>}}

JuliaArgs ==
    {[given |-> FALSE, c |-> Point(Num(0), Num(0))]}
        \cup {[given |-> TRUE, c |-> q.c] : q \in JULIA_PRESETS}

PixelPoints(conf, width, height) ==
    {PixelPoint(x, y, MergeConfig(DEFAULT_CONFIG, conf), width, height) :
        x \in 0..(width - 1), y \in 0..(height - 1)}

\* the orbits are computed exactly: more than two iterations are run on integer
\* points only, and the decimal default constant of julia for one iteration only;
\* juliaC is passed with type julia alone
ExactRender(cv, type, conf, jc) ==
    /\ (type # "julia") => ~jc.given
    /\ \/ conf.maxIterations <= 2
       \/ /\ \A q \in PixelPoints(conf, cv.width, cv.height) : IsIntPoint(q)
          /\ (type = "julia") => (jc.given /\ IsIntPoint(jc.c))
    /\ (type = "julia" /\ ~jc.given) => conf.maxIterations = 1

\* the caller's renderFractal(canvas, type, config, juliaC)
Arguments(cv, type, conf, jc) ==
    /\ ExactRender(cv, type, conf, jc)
    /\ rtype = type
    /\ rconfig = conf
    /\ juliaC = jc

InitRender ==
    /\ defaults = DEFAULT_CONFIG
    /\ IterIdle
    /\ ColorIdle
    /\ \E w \in 1..MaxDim, h \in 1..MaxDim, ok \in BOOLEAN :
        /\ canvas = [width |-> w, height |-> h, ctx |-> ok]
        /\ surface = CreateImageData(w, h)
        /\ before = CreateImageData(w, h)
    /\ \E type \in FractalTypes, conf \in RenderConfigs, jc \in JuliaArgs :
        Arguments(canvas, type, conf, jc)
    /\ rcfg = DEFAULT_CONFIG
    /\ data = NoBuffer
    /\ px = 0
    /\ py = 0
    /\ writes = <<>>
    /\ blits = 0
    /\ rpc = "entry"

\* getContext gave null: return
renderNoContext ==
    /\ rpc = "entry"
    /\ ContextMissing(canvas.ctx)
    /\ rpc' = "returned"
    /\ UNCHANGED <<defaults, iterVars, colorVars, canvas, surface, before, rtype,
                   rconfig, juliaC, rcfg, data, px, py, writes, blits>>

\* from getContext to the head of the pixel loops
renderEnter ==
    /\ rpc = "entry"
    /\ ~ContextMissing(canvas.ctx)
    /\ rcfg' = MergeConfig(defaults, rconfig)
    /\ defaults' = DefaultsAfterSpread(defaults, rconfig)
    /\ data' = CreateImageData(canvas.width, canvas.height)
    /\ px' = 0
    /\ py' = 0
    /\ rpc' = "rows"
    /\ UNCHANGED <<iterVars, colorVars, canvas, surface, before, rtype, rconfig,
                   juliaC, writes, blits>>

\* one turn of the inner loop: the pixel (px, py)
renderPixel ==
    /\ rpc = "rows"
    /\ ~RowsDone(py, canvas.height)
    /\ LET p   == PixelPoint(px, py, rcfg, canvas.width, canvas.height)
           v   == PixelValue(rtype, p, rcfg, juliaC, defaults)
           col == getColor(v, rcfg.colorScheme)
           idx == PixelIndex(px, py, canvas.width)
       IN  /\ data' = WritePixel(data, idx, col)
           /\ writes' = Append(writes, [px |-> px, py |-> py, idx |-> idx])
    /\ IF px + 1 < canvas.width
       THEN px' = px + 1 /\ py' = py
       ELSE px' = 0 /\ py' = py + 1
    /\ UNCHANGED <<defaults, iterVars, colorVars, canvas, surface, before, rtype,
                   rconfig, juliaC, rcfg, blits, rpc>>

\* ctx.putImageData(imageData, 0, 0) and the return
renderBlit ==
    /\ rpc = "rows"
    /\ RowsDone(py, canvas.height)
    /\ surface' = data
    /\ blits' = blits + 1
    /\ rpc' = "returned"
    /\ UNCHANGED <<defaults, iterVars, colorVars, canvas, before, rtype, rconfig,
                   juliaC, rcfg, data, px, py, writes>>

\* the caller calls renderFractal on the canvas again
renderAgain ==
    /\ rpc = "returned"
    /\ \E type \in FractalTypes, conf \in RenderConfigs, jc \in JuliaArgs :
        /\ ExactRender(canvas, type, conf, jc)
        /\ rtype' = type
        /\ rconfig' = conf
        /\ juliaC' = jc
    /\ before' = surface
    /\ data' = NoBuffer
    /\ px' = 0
    /\ py' = 0
    /\ writes' = <<>>
    /\ blits' = 0
    /\ rpc' = "entry"
    /\ UNCHANGED <<defaults, iterVars, colorVars, canvas, surface, rcfg>>

NextRender ==
    \/ renderNoContext
    \/ renderEnter
    \/ renderPixel
    \/ renderBlit
    \/ renderAgain

SpecRender == InitRender /\ [][NextRender]_vars

(***************************************************************************)
(* Properties of the iteration functions (checked under Spec).             *)
(***************************************************************************)
Escaped == pc = "done" /\ iter < cfg.maxIterations

\* the loop of julia(point, point, config), run to its end
JuliaAtC == RunLoop("julia", point.x, point.y, 0, point, cfg)

\* C1 as stated: julia(c, c, config) and mandelbrot(c, config) return identical
\* results, for every c and config.
C1_Identical ==
    (pc = "done" /\ fn = "mandelbrot")
        => julia(point, point, config, defaults) = ret

\* C1, amended: julia(c, c, config) runs the orbit of mandelbrot(c, config) one
\* step ahead.  When mandelbrot leaves its loop after n < maxIterations steps,
\* julia(c, c) leaves after n - 1 steps at the same (zr, zi) and returns
\* mandelbrot's value minus 1/maxIterations.  When mandelbrot uses all its
\* maxIterations steps and returns 1, julia(c, c) either runs maxIterations steps
\* too and returns 1, or leaves after maxIterations - 1 steps at mandelbrot's
\* last (zr, zi), which has reached escapeRadius.
C1_OneStepAhead ==
    (pc = "done" /\ fn = "mandelbrot") =>
        LET e == JuliaAtC
            j == julia(point, point, config, defaults)
        IN  IF iter < cfg.maxIterations
            THEN /\ e.iter = iter - 1
                 /\ e.zr = zr /\ e.zi = zi
                 /\ j = RSub(ret, Rat(1, cfg.maxIterations))
            ELSE /\ ret = Num(1)
                 /\ \/ e.iter = cfg.maxIterations /\ j = Num(1)
                    \/ /\ e.iter = cfg.maxIterations - 1
                       /\ e.zr = zr /\ e.zi = zi
                       /\ ~RLt(MagSq(zr, zi), cfg.escapeRadius)

\* mandelbrot escaped after at least two steps, julia(c, c) one step earlier
C1_Witness ==
    /\ Escaped /\ fn = "mandelbrot" /\ iter >= 2
    /\ JuliaAtC.iter = iter - 1
    /\ julia(point, point, config, defaults) # ret

\* C2 as stated: after every burningShip step both components are non-negative
\* (the absolute value taken of each complete component, constant included).
C2_BothNonNegative ==
    (fn = "burningShip" /\ iter >= 1) => (zr.n >= 0 /\ zi.n >= 0)

\* C2, amended: each burningShip step replaces (zr, zi) by
\* (|zr^2 - zi^2 + cx|, |2 zr zi| + cy): the absolute value is taken of the
\* complete real component, but only of the product 2 zr zi in the imaginary
\* one, before cy is added; so zr >= 0 and zi >= cy after every step.
C2_AbsBeforeConstant ==
    [][burningShipLoop =>
        /\ zr' = RAbs(RAdd(RSub(RMul(zr, zr), RMul(zi, zi)), cc.x))
        /\ zi' = RAdd(RAbs(RMul(Num(2), RMul(zr, zi))), cc.y)
        /\ zr'.n >= 0
        /\ RLe(cc.y, zi')]_vars

\* a burningShip step with 2 zr zi # 0 and negative cy has left zi negative
C2_Witness ==
    /\ fn = "burningShip" /\ iter >= 2
    /\ cc.y.n < 0 /\ zi.n < 0 /\ zr.n > 0

\* C3 as stated: mandelbrot, julia and burningShip return a value in [0,1] for
\* every point and every configuration with maxIterations >= 1, escapeRadius > 0.
C3_UnitInterval ==
    pc = "done" => (RLe(Num(0), ret) /\ RLe(ret, Num(1)))

\* C4: the loop performs at most maxIterations steps, and a call that leaves the
\* loop with iter = maxIterations returns exactly 1, in all three functions.
C4_BudgetAndOne ==
    /\ iter <= cfg.maxIterations
    /\ (pc = "done" /\ iter = cfg.maxIterations) => ret = Num(1)

\* burningShip at the origin under the default configuration has returned
C4_Witness ==
    /\ pc = "done" /\ fn = "burningShip" /\ config = NoConfig
    /\ point = Point(Num(0), Num(0))
    /\ iter = 256 /\ ret = Num(1)

\* C10: in mandelbrot and julia with escapeRadius >= 4, whenever the smoothing
\* formula is evaluated the loop was left with iter < maxIterations and
\* zr^2 + zi^2 >= escapeRadius, so log2(zr^2 + zi^2) > 1.
C10_SmoothingDefined ==
    (/\ pc = "done" /\ fn \in {"mandelbrot", "julia"}
     /\ iter # cfg.maxIterations
     /\ RLe(Num(4), cfg.escapeRadius)) =>
        /\ iter < cfg.maxIterations
        /\ RLe(cfg.escapeRadius, MagSq(zr, zi))
        /\ RLt(Num(2), MagSq(zr, zi))
        /\ RLt(Num(1), Log2(MagSq(zr, zi)))

\* julia has evaluated the smoothing formula at zr^2 + zi^2 = escapeRadius = 4
C10_Witness ==
    /\ pc = "done" /\ fn = "julia" /\ iter # cfg.maxIterations
    /\ cfg.escapeRadius = Num(4) /\ MagSq(zr, zi) = Num(4)

(***************************************************************************)
(* Properties of getColor (checked under SpecColor).                       *)
(***************************************************************************)
\* C5: for each of the five schemes and every t in [0,1) getColor returns three
\* integers in [0,255]; for every t >= 1 it returns (0,0,0) whatever the scheme.
C5_ChannelRange ==
    cpc = "done" =>
        IF RLt(t, Num(1))
        THEN \A i \in 1..3 : rgb[i] \in 0..255
        ELSE rgb = <<0, 0, 0>>

\* the rainbow scheme at t = 1/2 has returned cyan
C5_Witness ==
    /\ cpc = "done" /\ scheme = "rainbow" /\ t = Rat(1, 2)
    /\ rgb = <<0, 255, 255>>

(***************************************************************************)
(* Properties of renderFractal (checked under SpecRender).                 *)
(***************************************************************************)
NPixels == canvas.width * canvas.height

Returned == rpc = "returned" /\ canvas.ctx

Byte(v) == IF v < 0 THEN 0 ELSE IF v > 255 THEN 255 ELSE v

\* the colour the call in progress computes for pixel (x, y)
ColorAt(x, y) ==
    getColor(PixelValue(rtype, PixelPoint(x, y, rcfg, canvas.width, canvas.height),
                        rcfg, juliaC, defaults),
             rcfg.colorScheme)

\* C6: the pixels are written once each in row-major order, pixel (px, py) as the
\* bytes (R, G, B, 255) at offset (py * w + px) * 4; every index written lies in
\* [0, w * h * 4), no two pixels overlap, and on completion all w * h pixels are
\* written and every byte at an index = 3 mod 4 is 255.
C6_RowMajorWrites ==
    /\ Len(writes) <= NPixels
    /\ \A i \in 1..Len(writes) :
        /\ writes[i].px = (i - 1) % canvas.width
        /\ writes[i].py = (i - 1) \div canvas.width
        /\ writes[i].idx = (writes[i].py * canvas.width + writes[i].px) * 4
        /\ writes[i].idx >= 0
        /\ writes[i].idx + 3 < NPixels * 4
        /\ \A j \in 1..Len(writes) :
            (i # j) => ( \/ writes[i].idx + 3 < writes[j].idx
                         \/ writes[j].idx + 3 < writes[i].idx )
        /\ \A k \in 0..2 :
            data[writes[i].idx + k] = Byte(ColorAt(writes[i].px, writes[i].py)[k + 1])
        /\ data[writes[i].idx + 3] = 255
    /\ Returned =>
        /\ Len(writes) = NPixels
        /\ DOMAIN data = 0..(NPixels * 4 - 1)
        /\ \A k \in DOMAIN data : (k % 4 = 3) => data[k] = 255

\* a render of a canvas wider than high has completed with a coloured pixel
C6_Witness ==
    /\ Returned
    /\ canvas.width = 2 /\ canvas.height = 1
    /\ Len(writes) = 2
    /\ \E k \in DOMAIN data : (k % 4 # 3) /\ data[k] > 0

\* C7: on a usable surface putImageData happens exactly once per call, after all
\* width * height pixels are written; before it the surface shows what it showed
\* when the call began, after it the complete frame, and no pixel is written
\* after it.
C7_SingleBlitAfterFill ==
    /\ blits <= 1
    /\ (rpc # "returned") => (blits = 0 /\ surface = before)
    /\ Returned =>
        /\ blits = 1
        /\ Len(writes) = NPixels
        /\ surface = data

\* a second render of a two-by-two canvas has replaced the frame of the first
C7_Witness ==
    /\ Returned /\ blits = 1
    /\ NPixels = 4
    /\ before # CreateImageData(canvas.width, canvas.height)
    /\ surface # before

\* C8: with no drawing context renderFractal returns as a no-op: no buffer is
\* created, no pixel is computed or written, nothing is blitted.
C8_NoContextNoOp ==
    (~canvas.ctx /\ rpc # "idle") =>
        /\ rpc \in {"entry", "returned"}
        /\ data = NoBuffer
        /\ writes = <<>>
        /\ blits = 0
        /\ surface = before

\* a call on a canvas without context has returned
C8_Witness == rpc = "returned" /\ ~canvas.ctx /\ rtype = "burningShip"

\* the frame determined by the arguments of the call and the defaults of the
\* module as loaded
FrameOf(cv, type, conf, jc) ==
    LET c == MergeConfig(DEFAULT_CONFIG, conf)
    IN  [i \in 0..(cv.width * cv.height * 4 - 1) |->
            IF i % 4 = 3 THEN 255
            ELSE LET k   == i \div 4
                     p   == PixelPoint(k % cv.width, k \div cv.width, c,
                                       cv.width, cv.height)
                     col == getColor(PixelValue(type, p, c, jc, DEFAULT_CONFIG),
                                     c.colorScheme)
                 IN  Byte(col[(i % 4) + 1])]

\* C9: the buffer a completed render leaves is a function of the surface
\* dimensions, type, config and Julia constant alone, whatever was rendered
\* before; so two calls with the same arguments leave byte-identical buffers.
C9_SameArgumentsSameBuffer ==
    Returned => data = FrameOf(canvas, rtype, rconfig, juliaC)

\* a render has completed after a render with another colour scheme, and its
\* frame has a coloured pixel and differs from the one before
C9_Witness ==
    /\ Returned
    /\ "colorScheme" \notin DOMAIN rconfig
    /\ before # CreateImageData(canvas.width, canvas.height)
    /\ before # data
    /\ \E k \in DOMAIN data : (k % 4 # 3) /\ data[k] > 0
    /\ \E k \in DOMAIN before : (k % 4 = 2) /\ before[k] # data[k]

====
